---- MODULE Spec2Model ----
(***************************************************************************)
(* Model of simple-web-starter's HTML generator (src/src/index.ts).        *)
(*                                                                         *)
(* The module is a library of pure functions.  A JavaScript string is      *)
(* modelled as the sequence of its characters, so that escaping, trimming  *)
(* and prefix tests are computed character by character as the code does.  *)
(* The state is the last call a caller made: the function, its arguments   *)
(* and its outcome (a returned string or a thrown error with its message). *)
(***************************************************************************)
EXTENDS Integers, Sequences, FiniteSets, TLC

VARIABLES fn, text, level, href, items, options, result, again

vars == <<fn, text, level, href, items, options, result, again>>

(***************************************************************************)
(* Bounds of the input sets.                                               *)
(***************************************************************************)
MaxLen == 3
MaxTextLen == 1
MaxItems == 2
MaxOptLen == 1
LevelMargin == 1

(***************************************************************************)
(* Strings and JavaScript values.                                          *)
(***************************************************************************)
\* A string literal as the sequence of its characters.
Str(s) == [i \in 1..Len(s) |-> SubSeq(s, i, i)]

Strings(alphabet, n) == UNION {[1..k -> alphabet] : k \in 0..n}

Undefined == [type |-> "undefined", str |-> <<>>, arr |-> <<>>]
Null == [type |-> "null", str |-> <<>>, arr |-> <<>>]
Number == [type |-> "number", str |-> <<>>, arr |-> <<>>]
JSString(s) == [type |-> "string", str |-> s, arr |-> <<>>]
JSArray(a) == [type |-> "array", str |-> <<>>, arr |-> a]

\* The outcome of a call: a returned string, or a thrown Error and its message.
Return(v) == [kind |-> "return", value |-> v, message |-> ""]
Throw(m) == [kind |-> "throw", value |-> <<>>, message |-> m]
NoResult == [kind |-> "none", value |-> <<>>, message |-> ""]

(***************************************************************************)
(* sanitizeHTML: input.replace(/[&<>"]/g, match => table[match]).          *)
(***************************************************************************)
\* The character class of the regular expression.
RegexClass == {"&", "<", ">", "\""}

\* The object literal the callback indexes.
EntityTable ==
  [c \in {"&", "<", ">", "\""} |->
     CASE c = "&" -> Str("&amp;")
       [] c = "<" -> Str("&lt;")
       [] c = ">" -> Str("&gt;")
       [] c = "\"" -> Str("&quot;")]

\* The callback: the table's entry for the match (undefined, printed as such,
\* for a key the table lacks).
Replacement(match) ==
  IF match \in DOMAIN EntityTable THEN EntityTable[match] ELSE Str("undefined")

\* A global replace: every match, left to right, each replaced once; the
\* replacement text is not scanned again.
RECURSIVE replaceAll(_)
replaceAll(s) ==
  IF s = <<>> THEN <<>>
  ELSE (IF Head(s) \in RegexClass THEN Replacement(Head(s)) ELSE <<Head(s)>>)
         \o replaceAll(Tail(s))

\* Faulty variant: the character class lacks the double quote.
RECURSIVE sanitizeHTML_NoQuote(_)
sanitizeHTML_NoQuote(input) ==
  IF input = <<>> THEN <<>>
  ELSE (IF Head(input) \in {"&", "<", ">"} THEN Replacement(Head(input))
        ELSE <<Head(input)>>)
         \o sanitizeHTML_NoQuote(Tail(input))

\* Faulty variant: the ampersand is left to the end of the table and is not escaped.
RECURSIVE sanitizeHTML_NoAmp(_)
sanitizeHTML_NoAmp(input) ==
  IF input = <<>> THEN <<>>
  ELSE (IF Head(input) \in {"<", ">", "\""} THEN Replacement(Head(input))
        ELSE <<Head(input)>>)
         \o sanitizeHTML_NoAmp(Tail(input))

sanitizeHTML(input) == replaceAll(input)

(***************************************************************************)
(* Helpers of the JavaScript runtime the functions use.                    *)
(***************************************************************************)
WhiteSpace == {" ", "\t", "\n", "\r", "\f"}

RECURSIVE trimStart(_)
trimStart(s) ==
  IF s # <<>> /\ Head(s) \in WhiteSpace THEN trimStart(Tail(s)) ELSE s

RECURSIVE trimEnd(_)
trimEnd(s) ==
  IF s # <<>> /\ s[Len(s)] \in WhiteSpace
  THEN trimEnd(SubSeq(s, 1, Len(s) - 1)) ELSE s

\* String.prototype.trim
trim(s) == trimEnd(trimStart(s))

\* String.prototype.startsWith
startsWith(s, prefix) ==
  Len(s) >= Len(prefix) /\ SubSeq(s, 1, Len(prefix)) = prefix

\* Truthiness of an optional string: undefined and '' are falsy.
Truthy(v) == v.type = "string" /\ v.str # <<>>

\* A number interpolated into a template literal.
Digit(d) == SubSeq(Str("0123456789"), d + 1, d + 1)

RECURSIVE NatToStr(_)
NatToStr(n) == IF n < 10 THEN Digit(n) ELSE NatToStr(n \div 10) \o Digit(n % 10)

NumToStr(n) == IF n < 0 THEN Str("-") \o NatToStr(0 - n) ELSE NatToStr(n)

\* items.map(item => `<li>${sanitizeHTML(item)}</li>`)
RECURSIVE mapListItem(_)
mapListItem(arr) ==
  IF arr = <<>> THEN <<>>
  ELSE <<Str("<li>") \o sanitizeHTML(Head(arr)) \o Str("</li>")>>
         \o mapListItem(Tail(arr))

\* Array.prototype.join
RECURSIVE join(_, _)
join(arr, sep) ==
  IF arr = <<>> THEN <<>>
  ELSE IF Len(arr) = 1 THEN arr[1]
  ELSE arr[1] \o sep \o join(Tail(arr), sep)

(***************************************************************************)
(* The exported functions.                                                 *)
(***************************************************************************)
TitleMessage == "Title is required and must be a non-empty string"
BodyMessage == "Body content is required and must be a non-empty string"
HrefMessage == "Invalid href: Potential XSS attack detected"

\* The TypeErrors the runtime raises when .map is read from a value that is
\* not an array.
NotAFunctionMessage == "items.map is not a function"
NoPropertiesMessage == "Cannot read properties of undefined (reading 'map')"

NoOptions ==
  [present |-> FALSE, title |-> Undefined, bodyContent |-> Undefined,
   styles |-> Undefined, scripts |-> Undefined]

\* The template literal, with the sanitized strings interpolated.
Document(sanitizedTitle, sanitizedBody, sanitizedStyles, sanitizedScripts) ==
  Str("<!DOCTYPE html>\n<html lang=\"en\">\n<head>\n  <meta charset=\"UTF-8\">\n")
    \o Str("  <meta name=\"viewport\" content=\"width=device-width, initial-scale=1.0\">\n")
    \o Str("  <title>") \o sanitizedTitle \o Str("</title>\n  ")
    \o (IF sanitizedStyles # <<>>
        THEN Str("<style>") \o sanitizedStyles \o Str("</style>") ELSE <<>>)
    \o Str("\n</head>\n<body>\n  ") \o sanitizedBody \o Str("\n  ")
    \o (IF sanitizedScripts # <<>>
        THEN Str("<script>") \o sanitizedScripts \o Str("</script>") ELSE <<>>)
    \o Str("\n</body>\n</html>")

\* Faulty variant: the body content is validated before the title.
generateWebsite_BodyFirst(opts) ==
  IF ~opts.present \/ opts.bodyContent.type # "string"
       \/ trim(opts.bodyContent.str) = <<>>
  THEN Throw(BodyMessage)
  ELSE IF opts.title.type # "string" \/ trim(opts.title.str) = <<>>
  THEN Throw(TitleMessage)
  ELSE Return(Document(sanitizeHTML(opts.title.str),
                       sanitizeHTML(opts.bodyContent.str),
                       IF Truthy(opts.styles)
                       THEN sanitizeHTML(opts.styles.str) ELSE <<>>,
                       IF Truthy(opts.scripts)
                       THEN sanitizeHTML(opts.scripts.str) ELSE <<>>))

\* Faulty variant: the styles and the scripts are interpolated without sanitizing.
generateWebsite_RawBlocks(opts) ==
  IF ~opts.present \/ opts.title.type # "string" \/ trim(opts.title.str) = <<>>
  THEN Throw(TitleMessage)
  ELSE IF opts.bodyContent.type # "string" \/ trim(opts.bodyContent.str) = <<>>
  THEN Throw(BodyMessage)
  ELSE Return(Document(sanitizeHTML(opts.title.str),
                       sanitizeHTML(opts.bodyContent.str),
                       IF Truthy(opts.styles) THEN opts.styles.str ELSE <<>>,
                       IF Truthy(opts.scripts) THEN opts.scripts.str ELSE <<>>))

generateWebsite(opts) ==
  IF ~opts.present \/ opts.title.type # "string" \/ trim(opts.title.str) = <<>>
  THEN Throw(TitleMessage)
  ELSE IF opts.bodyContent.type # "string" \/ trim(opts.bodyContent.str) = <<>>
  THEN Throw(BodyMessage)
  ELSE LET sanitizedTitle == sanitizeHTML(opts.title.str)
           sanitizedBody == sanitizeHTML(opts.bodyContent.str)
           sanitizedStyles ==
             IF Truthy(opts.styles) THEN sanitizeHTML(opts.styles.str) ELSE <<>>
           sanitizedScripts ==
             IF Truthy(opts.scripts) THEN sanitizeHTML(opts.scripts.str) ELSE <<>>
       IN Return(Document(sanitizedTitle, sanitizedBody,
                          sanitizedStyles, sanitizedScripts))

createHeading(t, lvl) ==
  Return(Str("<h") \o NumToStr(lvl) \o Str(">") \o sanitizeHTML(t)
           \o Str("</h") \o NumToStr(lvl) \o Str(">"))

createParagraph(t) == Return(Str("<p>") \o sanitizeHTML(t) \o Str("</p>"))

\* Faulty variant: join() is called without its separator, which then is a comma.
createUnorderedList_DefaultJoin(its) ==
  IF its.type = "array"
  THEN Return(Str("<ul>\n") \o join(mapListItem(its.arr), Str(","))
                \o Str("\n</ul>"))
  ELSE IF its.type \in {"undefined", "null"} THEN Throw(NoPropertiesMessage)
  ELSE Throw(NotAFunctionMessage)

createUnorderedList(its) ==
  IF its.type = "array"
  THEN LET listItems == join(mapListItem(its.arr), Str("\n"))
       IN Return(Str("<ul>\n") \o listItems \o Str("\n</ul>"))
  ELSE IF its.type \in {"undefined", "null"} THEN Throw(NoPropertiesMessage)
  ELSE Throw(NotAFunctionMessage)

\* Faulty variant: only the javascript: protocol is refused.
createLink_NoDataCheck(t, h) ==
  IF startsWith(h, Str("javascript:"))
  THEN Throw(HrefMessage)
  ELSE Return(Str("<a href=\"") \o sanitizeHTML(h) \o Str("\">")
                \o sanitizeHTML(t) \o Str("</a>"))

createLink(t, h) ==
  IF startsWith(h, Str("javascript:")) \/ startsWith(h, Str("data:"))
  THEN Throw(HrefMessage)
  ELSE Return(Str("<a href=\"") \o sanitizeHTML(h) \o Str("\">")
                \o sanitizeHTML(t) \o Str("</a>"))

(***************************************************************************)
(* The arguments callers pass.                                             *)
(***************************************************************************)
Chars == {"&", "<", ">", "\"", "'", "a", ";"}
ItemChars == {"&", "<", "a"}
OptChars == {"<", " ", "a"}

Texts == Strings(Chars, MaxLen)

ShortTexts ==
  Strings(Chars, MaxTextLen)
    \cup {Str("Main Title"), Str("Subsection"), Str("Invalid"),
          Str("Click here"), Str("Test"), Str("a&amp;b")}

Levels == ((0 - LevelMargin)..(6 + LevelMargin)) \cup {100}

HrefPrefixes ==
  {Str(""), Str("javascript:"), Str("data:"), Str("javascript"), Str("data"),
   Str("Javascript:"), Str("DATA:"), Str(" javascript:"), Str("xdata:"),
   Str("java"), Str("https://example.com"),
   Str("http://example.com?query=hello world")}

Hrefs == {p \o t : p \in HrefPrefixes, t \in Strings(Chars, MaxTextLen)}

ItemTexts == Strings(ItemChars, MaxTextLen)

ItemLists ==
  UNION {[1..k -> ItemTexts] : k \in 0..MaxItems}
    \cup {<<Str("Item 1"), Str("Item 2"), Str("Item 3")>>}

ItemValues ==
  {JSArray(a) : a \in ItemLists}
    \cup {JSString(Str("not an array")), Undefined, Null, Number}

OptTexts == Strings(OptChars, MaxOptLen)

Titles ==
  {JSString(s) : s \in OptTexts \cup {Str("Test Site"), Str("Simple Site"),
                                      Str(" \n\t"), Str("\ta ")}}
    \cup {Undefined, Number}

Bodies ==
  {JSString(s) : s \in OptTexts \cup {Str("<div>Hello</div>"),
                                      Str("<p>Content</p>"), Str("\t \n")}}
    \cup {Undefined, Number}

Styles ==
  {JSString(s) : s \in OptTexts \cup {Str("body { font-family: sans-serif; }")}}
    \cup {Undefined}

Scripts ==
  {JSString(s) : s \in OptTexts \cup {Str("console.log(\"loaded\");")}}
    \cup {Undefined}

OptionValues ==
  [present : {TRUE}, title : Titles, bodyContent : Bodies,
   styles : Styles, scripts : Scripts]
    \cup {NoOptions}

(***************************************************************************)
(* The state machine.  The module keeps no state of its own, so a          *)
(* behaviour is one call: the initial state holds the function a caller    *)
(* is about to call and the arguments it passes, and the call's action     *)
(* records the outcome.                                                    *)
(***************************************************************************)
Init ==
  /\ result = NoResult
  /\ again = NoResult
  /\ \/ fn = "sanitizeHTML" /\ text \in Texts
        /\ level = 0 /\ href = <<>> /\ items = Undefined /\ options = NoOptions
     \/ fn = "createHeading" /\ text \in ShortTexts /\ level \in Levels
        /\ href = <<>> /\ items = Undefined /\ options = NoOptions
     \/ fn = "createParagraph" /\ text \in ShortTexts
        /\ level = 0 /\ href = <<>> /\ items = Undefined /\ options = NoOptions
     \/ fn = "createUnorderedList" /\ items \in ItemValues
        /\ text = <<>> /\ level = 0 /\ href = <<>> /\ options = NoOptions
     \/ fn = "createLink" /\ text \in ShortTexts /\ href \in Hrefs
        /\ level = 0 /\ items = Undefined /\ options = NoOptions
     \/ fn = "generateWebsite" /\ options \in OptionValues
        /\ text = <<>> /\ level = 0 /\ href = <<>> /\ items = Undefined

Pending(f) == fn = f /\ result = NoResult

CallSanitizeHTML ==
  /\ Pending("sanitizeHTML")
  /\ result' = Return(sanitizeHTML(text))
  /\ UNCHANGED <<fn, text, level, href, items, options, again>>

\* The caller passes the string sanitizeHTML returned to sanitizeHTML once more.
CallSanitizeHTMLAgain ==
  /\ fn = "sanitizeHTML"
  /\ result.kind = "return"
  /\ again = NoResult
  /\ again' = Return(sanitizeHTML(result.value))
  /\ UNCHANGED <<fn, text, level, href, items, options, result>>

CallCreateHeading ==
  /\ Pending("createHeading")
  /\ result' = createHeading(text, level)
  /\ UNCHANGED <<fn, text, level, href, items, options, again>>

CallCreateParagraph ==
  /\ Pending("createParagraph")
  /\ result' = createParagraph(text)
  /\ UNCHANGED <<fn, text, level, href, items, options, again>>

CallCreateUnorderedList ==
  /\ Pending("createUnorderedList")
  /\ result' = createUnorderedList(items)
  /\ UNCHANGED <<fn, text, level, href, items, options, again>>

CallCreateLink ==
  /\ Pending("createLink")
  /\ result' = createLink(text, href)
  /\ UNCHANGED <<fn, text, level, href, items, options, again>>

CallGenerateWebsite ==
  /\ Pending("generateWebsite")
  /\ result' = generateWebsite(options)
  /\ UNCHANGED <<fn, text, level, href, items, options, again>>

Next ==
  \/ CallSanitizeHTML
  \/ CallSanitizeHTMLAgain
  \/ CallCreateHeading
  \/ CallCreateParagraph
  \/ CallCreateUnorderedList
  \/ CallCreateLink
  \/ CallGenerateWebsite

Spec == Init /\ [][Next]_vars

TypeOK ==
  /\ fn \in {"sanitizeHTML", "createHeading", "createParagraph",
             "createUnorderedList", "createLink", "generateWebsite"}
  /\ result.kind \in {"none", "return", "throw"}
  /\ again.kind \in {"none", "return"}

(***************************************************************************)
(* Vocabulary of the properties.                                           *)
(***************************************************************************)
Called(f) == fn = f /\ result # NoResult

Special == {"&", "<", ">", "\""}

HasSpecial(s) == \E i \in 1..Len(s) : s[i] \in Special

\* The entity the Escaper writes for a character, the character itself when
\* it is not one of the four.
Entity(c) ==
  CASE c = "&" -> <<"&", "a", "m", "p", ";">>
    [] c = "<" -> <<"&", "l", "t", ";">>
    [] c = ">" -> <<"&", "g", "t", ";">>
    [] c = "\"" -> <<"&", "q", "u", "o", "t", ";">>
    [] OTHER -> <<c>>

\* Where the image of the i-th character starts in the escaped string, less one.
RECURSIVE Offset(_, _)
Offset(s, i) == IF i <= 1 THEN 0 ELSE Offset(s, i - 1) + Len(Entity(s[i - 1]))

\* Every ampersand written as its entity, nothing else changed.
RECURSIVE AmpDoubled(_)
AmpDoubled(s) ==
  IF s = <<>> THEN <<>>
  ELSE (IF Head(s) = "&" THEN <<"&", "a", "m", "p", ";">> ELSE <<Head(s)>>)
         \o AmpDoubled(Tail(s))

HasPrefix(s, p) == Len(p) <= Len(s) /\ \A i \in 1..Len(p) : s[i] = p[i]

\* Nothing is left of the string once its whitespace is trimmed.
Blank(s) == \A i \in 1..Len(s) : s[i] \in {" ", "\t", "\n", "\r", "\f"}

Unusable(v) == v.type # "string" \/ Blank(v.str)

Given(v) == v.type = "string" /\ Len(v.str) > 0

\* The lines joined by single newlines.
RECURSIVE Unlines(_)
Unlines(ls) ==
  IF Len(ls) = 0 THEN <<>>
  ELSE IF Len(ls) = 1 THEN ls[1]
  ELSE Unlines(SubSeq(ls, 1, Len(ls) - 1)) \o <<"\n">> \o ls[Len(ls)]

\* The document of section 6, given the four texts its slots hold.
DocumentOf(titleText, bodyText, styleLine, scriptLine) ==
  Unlines(<<Str("<!DOCTYPE html>"),
            Str("<html lang=\"en\">"),
            Str("<head>"),
            Str("  <meta charset=\"UTF-8\">"),
            Str("  <meta name=\"viewport\" content=\"width=device-width, initial-scale=1.0\">"),
            Str("  <title>") \o titleText \o Str("</title>"),
            Str("  ") \o styleLine,
            Str("</head>"),
            Str("<body>"),
            Str("  ") \o bodyText,
            Str("  ") \o scriptLine,
            Str("</body>"),
            Str("</html>")>>)

\* The list items, each on its line, in the order of the array.
RECURSIVE ItemLines(_, _)
ItemLines(arr, n) ==
  IF n = 0 THEN <<>>
  ELSE ItemLines(arr, n - 1) \o (IF n > 1 THEN <<"\n">> ELSE <<>>)
         \o Str("<li>") \o sanitizeHTML(arr[n]) \o Str("</li>")

(***************************************************************************)
(* The properties.                                                         *)
(***************************************************************************)

\* C1: createHeading returns <h{level}>escape(text)</h{level}> for a level in
\* 1..6 and throws "Heading level must be between 1 and 6" for any other
\* level.  The code does not check the level: the statement is violated.
C1_HeadingLevelChecked ==
  Called("createHeading") =>
    IF level \in 1..6
    THEN result = Return(Str("<h") \o NumToStr(level) \o Str(">")
                           \o sanitizeHTML(text)
                           \o Str("</h") \o NumToStr(level) \o Str(">"))
    ELSE result = Throw("Heading level must be between 1 and 6")

\* C2: createUnorderedList throws "Items must be an array of strings" when
\* items is not an array.  The code does not check items: what is thrown is
\* the runtime's TypeError, and the statement is violated.
C2_NonArrayRejected ==
  Called("createUnorderedList") /\ items.type # "array" =>
    result = Throw("Items must be an array of strings")

C4_EmptyLinkUnclosed ==
  Called("createLink") /\ text = <<>> /\ href = <<>> =>
    result = Return(Str("<a href=\"\">"))

\* C5: generateWebsite throws the title message when the title is missing,
\* not a string or blank, whatever the body content is; otherwise it throws
\* the body message when the body content is missing, not a string or blank;
\* it returns a document only when both are usable.
C5_ValidationOrder ==
  Called("generateWebsite") =>
    LET badTitle == ~options.present \/ Unusable(options.title)
        badBody == Unusable(options.bodyContent)
    IN /\ badTitle =>
            result = Throw("Title is required and must be a non-empty string")
       /\ ~badTitle /\ badBody =>
            result = Throw("Body content is required and must be a non-empty string")
       /\ result.kind = "return" <=> ~badTitle /\ ~badBody

C5_Witness ==
  /\ Called("generateWebsite")
  /\ options.title = JSString(Str("\ta "))
  /\ options.bodyContent = JSString(Str("\t \n"))
  /\ result.message = "Body content is required and must be a non-empty string"

\* C6: for valid options the document holds the body content, the styles and
\* the scripts exactly as passed.  The code escapes them: the statement is
\* violated.
C6_ContentAsPassed ==
  Called("generateWebsite") /\ result.kind = "return" =>
    result.value =
      DocumentOf(sanitizeHTML(options.title.str),
                 options.bodyContent.str,
                 IF Given(options.styles)
                 THEN Str("<style>") \o options.styles.str \o Str("</style>")
                 ELSE <<>>,
                 IF Given(options.scripts)
                 THEN Str("<script>") \o options.scripts.str \o Str("</script>")
                 ELSE <<>>)

C8_EscaperCharacterMap ==
  Called("sanitizeHTML") =>
    /\ result.kind = "return"
    /\ Len(result.value) = Offset(text, Len(text) + 1)
    /\ \A i \in 1..Len(text) :
         SubSeq(result.value, Offset(text, i) + 1, Offset(text, i + 1))
           = Entity(text[i])

C8_Witness ==
  /\ Called("sanitizeHTML")
  /\ text = <<"&", "'", "\"">>
  /\ result.value = Str("&amp;'&quot;")

\* C9: createUnorderedList of an array returns <ul>, the items in their
\* order, each as <li>escape(item)</li> on a line of its own, and </ul>;
\* the empty array gives <ul>, an empty line and </ul>.
C9_ListLayout ==
  Called("createUnorderedList") /\ items.type = "array" =>
    /\ result = Return(Str("<ul>") \o <<"\n">>
                         \o ItemLines(items.arr, Len(items.arr))
                         \o <<"\n">> \o Str("</ul>"))
    /\ items.arr = <<>> => result.value = Str("<ul>\n\n</ul>")

C9_Witness ==
  /\ Called("createUnorderedList")
  /\ items = JSArray(<<<<"<">>, <<"a">>>>)
  /\ result.value = Str("<ul>\n<li>&lt;</li>\n<li>a</li>\n</ul>")

\* C10: escaping twice gives what escaping once gives if and only if the
\* input holds none of & < > "; when it holds one, the second escape turns
\* each & of the first result into &amp; and changes nothing else.
C10_ReEscapeDoubles ==
  fn = "sanitizeHTML" /\ again.kind = "return" =>
    /\ again.value = result.value <=> ~HasSpecial(text)
    /\ HasSpecial(text) =>
         /\ again.value = AmpDoubled(result.value)
         /\ again.value # result.value

C10_Witness ==
  /\ fn = "sanitizeHTML"
  /\ text = <<"a", "<">>
  /\ again.value = Str("a&amp;lt;")

====
